---- MODULE Spec2Model ----
(***************************************************************************)
(* Model of paasta_tools/firewall.py: compilation of per-service outbound  *)
(* firewall policy into iptables chains and the reconciliation pass        *)
(* general_update (internet chain, service chains, dispatch chain,         *)
(* garbage collection).                                                    *)
(*                                                                         *)
(* Strings are TLA+ strings; characters are read with SubSeq.  Chain       *)
(* contents are tuples of rules, except where the code hands a Python set  *)
(* to ensure_chain (the dispatch chain), which is a set of rules.          *)
(***************************************************************************)
EXTENDS Integers, Sequences, FiniteSets, TLC

VARIABLES
    table,          \* iptables: chain name -> rules of the chain
    running,        \* firewall_update.services_running_here(): tuples
    conf,           \* configuration store: ServiceGroup -> policy document
    pc,             \* position of general_update
    pending,        \* active_service_groups() entries not yet iterated
    service_chains, \* the dict built by ensure_service_chains
    to_delete,      \* chains garbage collection has still to delete
    calls,          \* table-control calls made by the current pass
    raised,         \* exception that ended the current pass ("" if none)
    tableAtStart,   \* table when the current pass started
    stable,         \* previous pass completed and its input is unchanged
    result          \* last value returned (or raised) by ServiceGroup.rules

vars == <<table, running, conf, pc, pending, service_chains, to_delete,
          calls, raised, tableAtStart, stable, result>>

-----------------------------------------------------------------------------
(* Bounds *)

MaxRunning == 2     \* longest sequence returned by service discovery
MaxDeps == 2        \* longest dependency list of a policy document
MaxEvaluations == 2 \* how many times chain_name is read

-----------------------------------------------------------------------------
(* Strings *)

Min(a, b) == IF a <= b THEN a ELSE b

\* s[:n]
Take(s, n) == SubSeq(s, 1, Min(n, Len(s)))

\* s.startswith(p)
StartsWith(s, p) == Len(s) >= Len(p) /\ SubSeq(s, 1, Len(p)) = p

LowerLetters == "abcdefghijklmnopqrstuvwxyz"
UpperLetters == "ABCDEFGHIJKLMNOPQRSTUVWXYZ"

\* c.upper() for one character
UpperChar(c) ==
    IF \E i \in 1..Len(LowerLetters) : SubSeq(LowerLetters, i, i) = c
    THEN LET i == CHOOSE j \in 1..Len(LowerLetters) : SubSeq(LowerLetters, j, j) = c
         IN  SubSeq(UpperLetters, i, i)
    ELSE c

RECURSIVE Upper(_)
\* s.upper()
Upper(s) == IF s = "" THEN "" ELSE UpperChar(SubSeq(s, 1, 1)) \o Upper(SubSeq(s, 2, Len(s)))

Digits == "0123456789"

RECURSIVE text_type(_)
\* six.text_type(n) for a non-negative integer
text_type(n) ==
    IF n < 10 THEN SubSeq(Digits, n + 1, n + 1)
    ELSE text_type(n \div 10) \o SubSeq(Digits, (n % 10) + 1, (n % 10) + 1)

\* index of the first '.' of s, 0 if there is none
FirstDot(s) ==
    IF \E i \in 1..Len(s) : SubSeq(s, i, i) = "."
    THEN CHOOSE i \in 1..Len(s) :
            /\ SubSeq(s, i, i) = "."
            /\ \A j \in 1..(i - 1) : SubSeq(s, j, j) # "."
    ELSE 0

Range(f) == {f[i] : i \in DOMAIN f}

-----------------------------------------------------------------------------
(* Rules *)

ANY == "0.0.0.0/0.0.0.0"

PRIVATE_IP_RANGES ==
    << "127.0.0.0/255.0.0.0",
       "10.0.0.0/255.0.0.0",
       "172.16.0.0/255.240.0.0",
       "192.168.0.0/255.255.0.0",
       "169.254.0.0/255.255.0.0" >>

\* iptables.Rule
Rule(protocol, src, dst, target, matches) ==
    [protocol |-> protocol, src |-> src, dst |-> dst,
     target |-> target, matches |-> matches]

\* a call that returned v / a call that raised exc (value: what a generator
\* had yielded before it raised)
Ok(v) == [raised |-> "", value |-> v]
Raise(exc) == [raised |-> exc, value |-> <<>>]

-----------------------------------------------------------------------------
(* Service groups and their configuration *)

SOA_DIR == "/nail/etc/services"

ServiceGroup(service, instance, framework, soa_dir) ==
    [service |-> service, instance |-> instance,
     framework |-> framework, soa_dir |-> soa_dir]

K1 == ServiceGroup("svcA", "main", "marathon", SOA_DIR)
K2 == ServiceGroup("example_happyhour", "main", "marathon", SOA_DIR)

Keys == {K1, K2}

\* two service groups whose serialisations have the same first ten hex
\* digits of SHA-256 (48e21d4702)
K3 == ServiceGroup("svcA", "batch84470", "chronos", SOA_DIR)
K4 == ServiceGroup("svcA", "batch1194177", "chronos", SOA_DIR)

\* json.dumps(self) of the namedtuple: a JSON list of its four fields
json_dumps(self) ==
    "[\"" \o self.service \o "\", \"" \o self.instance \o "\", \""
          \o self.framework \o "\", \"" \o self.soa_dir \o "\"]"

\* hashlib.sha256(s.encode('utf8')).hexdigest()[:10], tabulated for the
\* serialised service groups of the model
sha256_hexdigest10(s) ==
    CASE s = "[\"svcA\", \"main\", \"marathon\", \"/nail/etc/services\"]"
            -> "2dadc84a34"
      [] s = "[\"example_happyhour\", \"main\", \"marathon\", \"/nail/etc/services\"]"
            -> "12aea0781a"
      [] s = "[\"svcC\", \"gone\", \"marathon\", \"/nail/etc/services\"]"
            -> "b00d253848"
      [] s = "[\"\", \"main\", \"marathon\", \"/nail/etc/services\"]"
            -> "f7c090955f"
      [] s = "[\"\", \"main\", \"marathon\", \"/tmp/soa\"]"
            -> "185e62718f"
      [] s = "[\"\", \"main\", \"chronos\", \"/nail/etc/services\"]"
            -> "6360b3189b"
      [] s = "[\"\", \"main\", \"chronos\", \"/tmp/soa\"]"
            -> "651e6e7305"
      [] s = "[\"\", \"canary\", \"marathon\", \"/nail/etc/services\"]"
            -> "5cbf979395"
      [] s = "[\"\", \"canary\", \"marathon\", \"/tmp/soa\"]"
            -> "0612b35618"
      [] s = "[\"\", \"canary\", \"chronos\", \"/nail/etc/services\"]"
            -> "c76d4f8d62"
      [] s = "[\"\", \"canary\", \"chronos\", \"/tmp/soa\"]"
            -> "18e7425adb"
      [] s = "[\"svcA\", \"main\", \"marathon\", \"/tmp/soa\"]"
            -> "1315488efd"
      [] s = "[\"svcA\", \"main\", \"chronos\", \"/nail/etc/services\"]"
            -> "d83e78d0c2"
      [] s = "[\"svcA\", \"main\", \"chronos\", \"/tmp/soa\"]"
            -> "94639c8c14"
      [] s = "[\"svcA\", \"canary\", \"marathon\", \"/nail/etc/services\"]"
            -> "26f4e37aba"
      [] s = "[\"svcA\", \"canary\", \"marathon\", \"/tmp/soa\"]"
            -> "c2d95bca20"
      [] s = "[\"svcA\", \"canary\", \"chronos\", \"/nail/etc/services\"]"
            -> "7043519a63"
      [] s = "[\"svcA\", \"canary\", \"chronos\", \"/tmp/soa\"]"
            -> "cc37144e72"
      [] s = "[\"example_ha\", \"main\", \"marathon\", \"/nail/etc/services\"]"
            -> "80b14711c6"
      [] s = "[\"example_ha\", \"main\", \"marathon\", \"/tmp/soa\"]"
            -> "a208ed8c98"
      [] s = "[\"example_ha\", \"main\", \"chronos\", \"/nail/etc/services\"]"
            -> "eec75bcfc5"
      [] s = "[\"example_ha\", \"main\", \"chronos\", \"/tmp/soa\"]"
            -> "466e705914"
      [] s = "[\"example_ha\", \"canary\", \"marathon\", \"/nail/etc/services\"]"
            -> "fdc14df8fa"
      [] s = "[\"example_ha\", \"canary\", \"marathon\", \"/tmp/soa\"]"
            -> "c6468b6b8e"
      [] s = "[\"example_ha\", \"canary\", \"chronos\", \"/nail/etc/services\"]"
            -> "cb804b35d7"
      [] s = "[\"example_ha\", \"canary\", \"chronos\", \"/tmp/soa\"]"
            -> "e7658c085d"
      [] s = "[\"example_hap\", \"main\", \"marathon\", \"/nail/etc/services\"]"
            -> "1233adc7b2"
      [] s = "[\"example_hap\", \"main\", \"marathon\", \"/tmp/soa\"]"
            -> "c5d7cb14b8"
      [] s = "[\"example_hap\", \"main\", \"chronos\", \"/nail/etc/services\"]"
            -> "6296031031"
      [] s = "[\"example_hap\", \"main\", \"chronos\", \"/tmp/soa\"]"
            -> "e4e718598c"
      [] s = "[\"example_hap\", \"canary\", \"marathon\", \"/nail/etc/services\"]"
            -> "33b024a09b"
      [] s = "[\"example_hap\", \"canary\", \"marathon\", \"/tmp/soa\"]"
            -> "6f729d56d7"
      [] s = "[\"example_hap\", \"canary\", \"chronos\", \"/nail/etc/services\"]"
            -> "3063dc26fe"
      [] s = "[\"example_hap\", \"canary\", \"chronos\", \"/tmp/soa\"]"
            -> "012dba5819"
      [] s = "[\"example_happy\", \"main\", \"marathon\", \"/nail/etc/services\"]"
            -> "3e39671314"
      [] s = "[\"example_happy\", \"main\", \"marathon\", \"/tmp/soa\"]"
            -> "d187bc5527"
      [] s = "[\"example_happy\", \"main\", \"chronos\", \"/nail/etc/services\"]"
            -> "ca4ce92592"
      [] s = "[\"example_happy\", \"main\", \"chronos\", \"/tmp/soa\"]"
            -> "83cb0b1c0f"
      [] s = "[\"example_happy\", \"canary\", \"marathon\", \"/nail/etc/services\"]"
            -> "8f4fd39fd5"
      [] s = "[\"example_happy\", \"canary\", \"marathon\", \"/tmp/soa\"]"
            -> "458fe13cba"
      [] s = "[\"example_happy\", \"canary\", \"chronos\", \"/nail/etc/services\"]"
            -> "65f202e553"
      [] s = "[\"example_happy\", \"canary\", \"chronos\", \"/tmp/soa\"]"
            -> "4a02fdc835"
      [] s = "[\"example_happyhour\", \"main\", \"marathon\", \"/tmp/soa\"]"
            -> "db96f2bd4a"
      [] s = "[\"example_happyhour\", \"main\", \"chronos\", \"/nail/etc/services\"]"
            -> "417b3395a1"
      [] s = "[\"example_happyhour\", \"main\", \"chronos\", \"/tmp/soa\"]"
            -> "42ee0a119a"
      [] s = "[\"example_happyhour\", \"canary\", \"marathon\", \"/nail/etc/services\"]"
            -> "e1ac577622"
      [] s = "[\"example_happyhour\", \"canary\", \"marathon\", \"/tmp/soa\"]"
            -> "135c6062ae"
      [] s = "[\"example_happyhour\", \"canary\", \"chronos\", \"/nail/etc/services\"]"
            -> "f3fcafa018"
      [] s = "[\"example_happyhour\", \"canary\", \"chronos\", \"/tmp/soa\"]"
            -> "edb3f56710"
      [] s = "[\"svcA\", \"batch84470\", \"chronos\", \"/nail/etc/services\"]"
            -> "48e21d4702"
      [] s = "[\"svcA\", \"batch1194177\", \"chronos\", \"/nail/etc/services\"]"
            -> "48e21d4702"

\* chain_name without the [:10] on the service name
chain_name_untrimmed(self) ==
    LET chain == ("PAASTA." \o self.service)
                     \o "." \o sha256_hexdigest10(json_dumps(self))
    IN  chain

\* ServiceGroup.chain_name: the name it returns
chain_name(self) ==
    LET chain == ("PAASTA." \o Take(self.service, 10))
                     \o "." \o sha256_hexdigest10(json_dumps(self))
    IN  chain

\* ServiceGroup.chain_name with its assertion on the length of the name
chain_name_asserted(self) ==
    LET chain == chain_name(self)
    IN  IF Len(chain) <= 28 THEN Ok(chain) ELSE Raise("AssertionError")

\* get_all_namespaces_for_service(service, soa_dir): the smartstack namespaces
\* of the configuration store, as (namespace, config) pairs
get_all_namespaces_for_service(service, soa_dir) ==
    IF service = "svcB"
    THEN << <<"svcB.main",   [mode |-> "http", proxy_port |-> 8888]>>,
            <<"svcB.canary", [mode |-> "http", proxy_port |-> 20719]>>,
            <<"svcB.noport", [mode |-> "http"]>> >>
    ELSE <<>>

\* dict(pairs)[key]: the value of the last pair with this key
DictGet(pairs, key) ==
    IF \E i \in DOMAIN pairs : pairs[i][1] = key
    THEN LET i == CHOOSE j \in DOMAIN pairs :
                    /\ pairs[j][1] = key
                    /\ \A l \in DOMAIN pairs : pairs[l][1] = key => l <= j
         IN  Ok(pairs[i][2])
    ELSE Raise("KeyError")

\* d.get(key, ())
GetOrEmpty(d, key) == IF key \in DOMAIN d THEN d[key] ELSE <<>>

\* ServiceGroup.config: the loader is chosen by framework
config(self) ==
    IF self.framework \in {"chronos", "marathon"}
    THEN Ok(conf[self])
    ELSE Raise("KeyError")

-----------------------------------------------------------------------------
(* Policy compilation *)

\* _default_rule that falls back to REJECT for a posture it does not know
default_rule_reject_by_default(cfg) ==
    LET policy == cfg.outbound_firewall
    IN  IF policy = "monitor"
        THEN Ok(Rule("ip", ANY, ANY, "LOG", <<>>))
        ELSE Ok(Rule("ip", ANY, ANY, "REJECT", <<>>))

\* _default_rule
default_rule(cfg) ==
    LET policy == cfg.outbound_firewall
    IN  IF policy = "block"
        THEN Ok(Rule("ip", ANY, ANY, "REJECT", <<>>))
        ELSE IF policy = "monitor"
        THEN Ok(Rule("ip", ANY, ANY, "LOG", <<>>))
        ELSE Raise("AssertionError")

RECURSIVE WellKnownFrom(_)
WellKnownFrom(resources) ==
    IF resources = <<>> THEN Ok(<<>>)
    ELSE IF Head(resources) = "internet"
    THEN LET rest == WellKnownFrom(Tail(resources))
         IN  [raised |-> rest.raised,
              value |-> <<Rule("ip", ANY, ANY, "PAASTA-INTERNET", <<>>)>> \o rest.value]
    ELSE Raise("KeyError")

\* _well_known_rules that passes over the resources it does not recognise
well_known_rules_skip_unknown(cfg) ==
    WellKnownFrom(SelectSeq(GetOrEmpty(cfg.dependencies, "well-known"),
                            LAMBDA resource : resource = "internet"))

\* the generator _well_known_rules: the rules it yields, and the exception
\* that ends it if a resource is not recognised
well_known_rules(cfg) == WellKnownFrom(GetOrEmpty(cfg.dependencies, "well-known"))

\* one iteration of the loop of _smartstack_rules
SmartstackRule(namespace, soa_dir) ==
    LET dot == FirstDot(namespace)
    IN  IF dot = 0 THEN Raise("ValueError")
        ELSE LET service == SubSeq(namespace, 1, dot - 1)
                 service_namespaces == get_all_namespaces_for_service(service, soa_dir)
                 entry == DictGet(service_namespaces, namespace)
             IN  IF entry.raised # "" THEN Raise("KeyError")
                 ELSE IF "proxy_port" \notin DOMAIN entry.value THEN Raise("KeyError")
                 ELSE Ok(Rule("tcp", ANY, "169.254.255.254/255.255.255.255", "ACCEPT",
                              << <<"tcp", << <<"dport", text_type(entry.value.proxy_port)>> >> >> >>))

RECURSIVE SmartstackFrom(_, _)
SmartstackFrom(namespaces, soa_dir) ==
    IF namespaces = <<>> THEN Ok(<<>>)
    ELSE LET first == SmartstackRule(Head(namespaces), soa_dir)
         IN  IF first.raised # "" THEN Raise(first.raised)
             ELSE LET rest == SmartstackFrom(Tail(namespaces), soa_dir)
                  IN  [raised |-> rest.raised, value |-> <<first.value>> \o rest.value]

\* the generator _smartstack_rules
smartstack_rules(cfg, soa_dir) ==
    SmartstackFrom(GetOrEmpty(cfg.dependencies, "smartstack"), soa_dir)

\* ServiceGroup.rules with the two dependency groups extended in the other order
rules_smartstack_first(self) ==
    LET cfg == config(self)
    IN  IF cfg.raised # "" THEN Raise(cfg.raised)
        ELSE LET d == default_rule(cfg.value)
                 w == well_known_rules(cfg.value)
                 s == smartstack_rules(cfg.value, self.soa_dir)
             IN  IF d.raised # "" THEN Raise(d.raised)
                 ELSE IF w.raised # "" THEN Raise(w.raised)
                 ELSE IF s.raised # "" THEN Raise(s.raised)
                 ELSE Ok((<<d.value>> \o s.value) \o w.value)

\* ServiceGroup.rules: the tuple of rules, or the exception raised on the way
rules(self) ==
    LET cfg == config(self)
    IN  IF cfg.raised # "" THEN Raise(cfg.raised)
        ELSE LET d == default_rule(cfg.value)
             IN  IF d.raised # "" THEN Raise(d.raised)
                 ELSE LET w == well_known_rules(cfg.value)
                      IN  IF w.raised # "" THEN Raise(w.raised)
                          ELSE LET s == smartstack_rules(cfg.value, self.soa_dir)
                               IN  IF s.raised # "" THEN Raise(s.raised)
                                   ELSE Ok((<<d.value>> \o w.value) \o s.value)

-----------------------------------------------------------------------------
(* The table-control collaborator, paasta_tools.iptables *)

\* ensure_chain(chain, rules): the chain exists and holds exactly these rules
ensure_chain(t, chain, rs) ==
    [c \in DOMAIN t \cup {chain} |-> IF c = chain THEN rs ELSE t[c]]

RECURSIVE DropRule(_, _)
\* the sequence without any occurrence of rule
DropRule(rs, rule) ==
    IF rs = <<>> THEN <<>>
    ELSE IF Head(rs) = rule THEN DropRule(Tail(rs), rule)
    ELSE <<Head(rs)>> \o DropRule(Tail(rs), rule)

RECURSIVE KeepFirst(_, _)
\* the sequence with only the first occurrence of rule left
KeepFirst(rs, rule) ==
    IF rs = <<>> THEN <<>>
    ELSE IF Head(rs) = rule THEN <<rule>> \o DropRule(Tail(rs), rule)
    ELSE <<Head(rs)>> \o KeepFirst(Tail(rs), rule)

\* ensure_rule(chain, rule): exactly one occurrence of the rule in the
\* existing chain, the other rules of the chain untouched
ensure_rule(t, chain, rule) ==
    [t EXCEPT ![chain] = IF rule \in Range(t[chain])
                         THEN KeepFirst(t[chain], rule)
                         ELSE <<rule>> \o t[chain]]

\* all_chains()
all_chains(t) == DOMAIN t

DISPATCH == "PAASTA"

\* the rules of a chain as a set (the dispatch chain is installed from a set)
ChainRules(t, c) == IF c = DISPATCH THEN t[c] ELSE Range(t[c])

\* delete_chain fails while a rule of another chain still targets the chain
Referenced(t, chain) ==
    \E c \in DOMAIN t \ {chain} : \E r \in ChainRules(t, c) : r.target = chain

\* delete_chain(chain) when it succeeds
delete_chain(t, chain) == [c \in DOMAIN t \ {chain} |-> t[c]]

Call(op, chain, rs) == [op |-> op, chain |-> chain, rules |-> rs]

-----------------------------------------------------------------------------
(* Reconciliation *)

RECURSIVE GroupsFrom(_, _)
GroupsFrom(tuples, soa_dir) ==
    IF tuples = <<>> THEN <<>>
    ELSE LET rest == GroupsFrom(SubSeq(tuples, 1, Len(tuples) - 1), soa_dir)
             last == tuples[Len(tuples)]
             key == ServiceGroup(last[1], last[2], last[3], soa_dir)
         IN  [k \in DOMAIN rest \cup {key} |->
                 (IF k \in DOMAIN rest THEN rest[k] ELSE {})
                    \cup (IF k = key THEN {last[4]} ELSE {})]

\* active_service_groups that keeps, for each group, the last MAC address only
active_service_groups_last_mac(tuples, soa_dir) ==
    LET groups == GroupsFrom(tuples, soa_dir)
        last(k) == CHOOSE i \in DOMAIN tuples :
                      /\ ServiceGroup(tuples[i][1], tuples[i][2], tuples[i][3], soa_dir) = k
                      /\ \A j \in DOMAIN tuples :
                            ServiceGroup(tuples[j][1], tuples[j][2], tuples[j][3], soa_dir) = k
                                => j <= i
    IN  [k \in DOMAIN groups |-> {tuples[last(k)][4]}]

\* active_service_groups: ServiceGroup -> set of MAC addresses
active_service_groups(tuples, soa_dir) == GroupsFrom(tuples, soa_dir)

\* the rules ensure_internet_chain installs
internet_rules ==
    <<Rule("ip", ANY, ANY, "ACCEPT", <<>>)>>
        \o [i \in DOMAIN PRIVATE_IP_RANGES |->
                Rule("ip", ANY, PRIVATE_IP_RANGES[i], "RETURN", <<>>)]

\* update_rules that hands ensure_chain whatever was compiled before a failure
update_rules_partial(t, self, compiled) ==
    ensure_chain(t, chain_name(self), compiled.value)

\* ServiceGroup.update_rules on the table: the arguments of ensure_chain are
\* evaluated before the call, so a raising compilation makes no call
update_rules(t, self, compiled) ==
    IF compiled.raised # "" THEN t
    ELSE ensure_chain(t, chain_name(self), compiled.value)

\* the MAC addresses recorded under the service name instead of the chain name
record_chain_by_service(chains, self, macs) ==
    [c \in DOMAIN chains \cup {self.service} |->
        IF c = self.service THEN macs ELSE chains[c]]

\* ensure_service_chains: chains[service.chain_name] = macs
record_chain(chains, self, macs) ==
    [c \in DOMAIN chains \cup {chain_name(self)} |->
        IF c = chain_name(self) THEN macs ELSE chains[c]]

\* dispatch rules that match the MAC address as discovery reported it
paasta_rules_raw_mac(chains) ==
    { Rule("ip", ANY, ANY, chain,
           << <<"mac", << <<"mac_source", mac>> >> >> >>) :
        <<chain, mac>> \in { <<c, m>> \in (DOMAIN chains) \X (UNION Range(chains)) :
                                 m \in chains[c] } }

\* the set of dispatch rules built by ensure_dispatch_chains
paasta_rules(chains) ==
    { Rule("ip", ANY, ANY, chain,
           << <<"mac", << <<"mac_source", Upper(mac)>> >> >> >>) :
        <<chain, mac>> \in { <<c, m>> \in (DOMAIN chains) \X (UNION Range(chains)) :
                                 m \in chains[c] } }

jump_to_paasta == Rule("ip", ANY, ANY, DISPATCH, <<>>)

\* garbage collection that matches the prefix without its trailing dot
current_paasta_chains_no_dot(t) == {chain \in all_chains(t) : StartsWith(chain, "PAASTA")}

\* the chains garbage collection considers
current_paasta_chains(t) == {chain \in all_chains(t) : StartsWith(chain, "PAASTA.")}

\* garbage collection that subtracts from the desired chains instead
old_service_chains_reversed(t, desired_chains) ==
    DOMAIN desired_chains \ current_paasta_chains(t)

\* the chains garbage_collect_old_service_chains deletes
old_service_chains(t, desired_chains) == current_paasta_chains(t) \ DOMAIN desired_chains

-----------------------------------------------------------------------------
(* Inputs: service discovery, policy documents, the table found on the host *)

MAC1 == "02:42:a9:fe:00:0a"
MAC1U == "02:42:A9:FE:00:0A"
MAC2 == "02:42:a9:fe:00:0b"

\* the tuples services_running_here can report
Instances ==
    { <<K1.service, K1.instance, K1.framework, MAC1>>,
      <<K1.service, K1.instance, K1.framework, MAC1U>>,
      <<K2.service, K2.instance, K2.framework, MAC2>> }

SeqsUpTo(S, n) == UNION { [1..m -> S] : m \in 0..n }

Discoveries == SeqsUpTo(Instances, MaxRunning)

Policy(posture, wk, ss) ==
    [outbound_firewall |-> posture,
     dependencies |-> ("well-known" :> wk) @@ ("smartstack" :> ss)]

\* a policy document that declares no dependencies at all
PolicyNoDeps(posture) ==
    [outbound_firewall |-> posture, dependencies |-> [k \in {} |-> <<>>]]

\* "None": what get_outbound_firewall returns for a document without a posture
Postures == {"block", "monitor", "allow", "None"}
Resources == {"internet", "datacenter"}
Namespaces == {"svcB.main", "svcB.canary", "svcB.noport", "svcB.gone", "svcB"}

\* every policy document with dependency lists of at most MaxDeps entries
PolicyDocs ==
    { Policy(p, wk, ss) : p \in Postures,
                          wk \in SeqsUpTo(Resources, MaxDeps),
                          ss \in SeqsUpTo(Namespaces, MaxDeps) }
        \cup { PolicyNoDeps(p) : p \in Postures }

\* the policy documents the services of the reconciliation model choose from
MainPolicies ==
    { Policy("block", <<"internet">>, <<"svcB.main">>),
      PolicyNoDeps("monitor"),
      Policy("allow", <<>>, <<>>),
      Policy("block", <<"internet", "datacenter">>, <<>>),
      Policy("monitor", <<"internet">>, <<"svcB.main", "svcB.gone">>) }

UNRELATED == Rule("tcp", "10.1.2.3/255.255.255.255", ANY, "DROP", <<>>)

STALE_CHAIN ==
    chain_name(ServiceGroup("svcC", "gone", "marathon", SOA_DIR))

\* a host that was never managed: only the entry chains and a foreign chain
FreshTable ==
    ("INPUT" :> <<UNRELATED>>) @@ ("FORWARD" :> <<>>)
        @@ ("DOCKER" :> <<UNRELATED>>)

\* a host left by earlier passes: a chain of a service that is gone, still
\* dispatched to, and a chain of K1 with outdated rules
ManagedTable ==
    ("INPUT" :> <<jump_to_paasta, UNRELATED>>)
        @@ ("FORWARD" :> <<UNRELATED, jump_to_paasta>>)
        @@ ("DOCKER" :> <<UNRELATED>>)
        @@ ("PAASTA-INTERNET" :> internet_rules)
        @@ (DISPATCH :> paasta_rules(STALE_CHAIN :> {MAC2}))
        @@ (STALE_CHAIN :> <<Rule("ip", ANY, ANY, "LOG", <<>>)>>)
        @@ (chain_name(K1) :> <<Rule("ip", ANY, ANY, "LOG", <<>>)>>)

\* a host edited by hand: the jump is duplicated in INPUT, and FORWARD
\* jumps straight into the chain of a service that is gone
EditedTable ==
    ("INPUT" :> <<jump_to_paasta, UNRELATED, jump_to_paasta>>)
        @@ ("FORWARD" :> <<Rule("ip", ANY, ANY, STALE_CHAIN, <<>>)>>)
        @@ ("PAASTA-INTERNET" :> <<>>)
        @@ (STALE_CHAIN :> <<>>)

InitTables == {FreshTable, ManagedTable, EditedTable}

EmptyDict == [k \in {} |-> {}]
NoResult == Ok(<<>>)

-----------------------------------------------------------------------------
(* general_update, one table-control call per step *)

Init ==
    /\ table \in InitTables
    /\ running \in Discoveries
    /\ conf \in [Keys -> MainPolicies]
    /\ pc = "idle"
    /\ pending = EmptyDict
    /\ service_chains = EmptyDict
    /\ to_delete = {}
    /\ calls = <<>>
    /\ raised = ""
    /\ tableAtStart = table
    /\ stable = FALSE
    /\ result = NoResult

Resting == pc \in {"idle", "done", "aborted"}

\* general_update with garbage collection called before the dispatch chains
general_update_collect_first ==
    << "ensure_internet_chain", "ensure_service_chains",
       "garbage_collect_old_service_chains", "ensure_dispatch_chains" >>

\* the body of general_update: the functions it calls, in order
general_update ==
    << "ensure_internet_chain", "ensure_service_chains",
       "ensure_dispatch_chains", "garbage_collect_old_service_chains" >>

\* where each function of general_update begins
Begin(fn) ==
    CASE fn = "ensure_internet_chain" -> "internet"
      [] fn = "ensure_service_chains" -> "discover"
      [] fn = "ensure_dispatch_chains" -> "PAASTA"
      [] fn = "garbage_collect_old_service_chains" -> "gc"

\* where general_update continues when fn returns
Continue(fn) ==
    LET i == CHOOSE j \in DOMAIN general_update : general_update[j] = fn
    IN  IF i < Len(general_update) THEN Begin(general_update[i + 1]) ELSE "done"

\* the exception exc leaves general_update
Abort(exc) ==
    /\ pc' = "aborted"
    /\ raised' = exc

\* general_update begins: ensure_internet_chain()
EnsureInternetChain ==
    /\ Resting
    /\ tableAtStart' = table
    /\ stable' = (pc = "done")
    /\ calls' = <<Call("ensure_chain", "PAASTA-INTERNET", internet_rules)>>
    /\ pending' = EmptyDict
    /\ service_chains' = EmptyDict
    /\ to_delete' = {}
    /\ result' = NoResult
    /\ \/ Abort("IPTCError") /\ table' = table
       \/ /\ table' = ensure_chain(table, "PAASTA-INTERNET", internet_rules)
          /\ pc' = Continue("ensure_internet_chain")
          /\ raised' = ""
    /\ UNCHANGED <<running, conf>>

\* ensure_service_chains: active_service_groups(soa_dir)
Discover ==
    /\ pc = "discover"
    /\ \/ Abort("DiscoveryError") /\ pending' = pending
       \/ /\ pending' = active_service_groups(running, SOA_DIR)
          /\ pc' = IF DOMAIN pending' = {} THEN Continue("ensure_service_chains")
                                          ELSE "services"
          /\ raised' = raised
    /\ UNCHANGED <<table, running, conf, service_chains, to_delete, calls,
                   tableAtStart, stable, result>>

\* ensure_service_chains: one iteration of the loop, for service group self
UpdateRules(self) ==
    /\ pc = "services"
    /\ self \in DOMAIN pending
    /\ LET compiled == rules(self)
           call == Call("ensure_chain", chain_name(self), compiled.value)
       IN  /\ result' = compiled
           /\ \/ /\ compiled.raised # ""
                 /\ Abort(compiled.raised)
                 /\ table' = update_rules(table, self, compiled)
                 /\ UNCHANGED <<calls, pending, service_chains>>
              \/ /\ compiled.raised = ""
                 /\ calls' = Append(calls, call)
                 /\ \/ Abort("IPTCError") /\ UNCHANGED <<table, pending, service_chains>>
                    \/ /\ table' = update_rules(table, self, compiled)
                       /\ service_chains' = record_chain(service_chains, self, pending[self])
                       /\ pending' = [k \in DOMAIN pending \ {self} |-> pending[k]]
                       /\ pc' = IF DOMAIN pending' = {}
                                THEN Continue("ensure_service_chains")
                                ELSE "services"
                       /\ raised' = raised
    /\ UNCHANGED <<running, conf, to_delete, tableAtStart, stable>>

\* ensure_dispatch_chains: iptables.ensure_chain('PAASTA', paasta_rules)
EnsureDispatchChain ==
    /\ pc = "PAASTA"
    /\ calls' = Append(calls, Call("ensure_chain", DISPATCH, paasta_rules(service_chains)))
    /\ \/ Abort("IPTCError") /\ table' = table
       \/ /\ table' = ensure_chain(table, DISPATCH, paasta_rules(service_chains))
          /\ pc' = "INPUT"
          /\ raised' = raised
    /\ UNCHANGED <<running, conf, pending, service_chains, to_delete,
                   tableAtStart, stable, result>>

\* ensure_dispatch_chains without its ensure_rule('FORWARD', ...) line
AfterEntryChain_input_only(chain) == Continue("ensure_dispatch_chains")

\* the entry chain that follows chain in ensure_dispatch_chains
AfterEntryChain(chain) ==
    IF chain = "INPUT" THEN "FORWARD" ELSE Continue("ensure_dispatch_chains")

\* ensure_dispatch_chains: iptables.ensure_rule(chain, jump_to_paasta)
EnsureJump(chain) ==
    /\ pc = chain
    /\ calls' = Append(calls, Call("ensure_rule", chain, <<jump_to_paasta>>))
    /\ \/ Abort("IPTCError") /\ table' = table
       \/ /\ table' = ensure_rule(table, chain, jump_to_paasta)
          /\ pc' = AfterEntryChain(chain)
          /\ raised' = raised
    /\ UNCHANGED <<running, conf, pending, service_chains, to_delete,
                   tableAtStart, stable, result>>

\* garbage_collect_old_service_chains: iptables.all_chains() and the difference
ListChains ==
    /\ pc = "gc"
    /\ calls' = Append(calls, Call("all_chains", "", <<>>))
    /\ \/ Abort("IPTCError") /\ to_delete' = to_delete
       \/ /\ to_delete' = old_service_chains(table, service_chains)
          /\ pc' = IF to_delete' = {}
                   THEN Continue("garbage_collect_old_service_chains")
                   ELSE "delete"
          /\ raised' = raised
    /\ UNCHANGED <<table, running, conf, pending, service_chains,
                   tableAtStart, stable, result>>

\* garbage_collect_old_service_chains: iptables.delete_chain(chain)
DeleteChain(chain) ==
    /\ pc = "delete"
    /\ chain \in to_delete
    /\ calls' = Append(calls, Call("delete_chain", chain, <<>>))
    /\ \/ Abort("IPTCError") /\ UNCHANGED <<table, to_delete>>
       \/ /\ ~Referenced(table, chain)
          /\ table' = delete_chain(table, chain)
          /\ to_delete' = to_delete \ {chain}
          /\ pc' = IF to_delete' = {}
                   THEN Continue("garbage_collect_old_service_chains")
                   ELSE "delete"
          /\ raised' = raised
    /\ UNCHANGED <<running, conf, pending, service_chains,
                   tableAtStart, stable, result>>

\* nothing of a finished pass is kept but the table
Forget ==
    /\ pc' = "idle"
    /\ pending' = EmptyDict
    /\ service_chains' = EmptyDict
    /\ to_delete' = {}
    /\ calls' = <<>>
    /\ raised' = ""
    /\ tableAtStart' = table
    /\ stable' = FALSE
    /\ result' = NoResult

\* between passes an instance starts on the host
InstanceStarts(tuple) ==
    /\ Resting
    /\ Len(running) < MaxRunning
    /\ running' = Append(running, tuple)
    /\ Forget
    /\ UNCHANGED <<table, conf>>

\* between passes an instance stops
InstanceStops(i) ==
    /\ Resting
    /\ i \in DOMAIN running
    /\ running' = SubSeq(running, 1, i - 1) \o SubSeq(running, i + 1, Len(running))
    /\ Forget
    /\ UNCHANGED <<table, conf>>

Next ==
    \/ EnsureInternetChain
    \/ Discover
    \/ \E self \in Keys : UpdateRules(self)
    \/ EnsureDispatchChain
    \/ \E chain \in {"INPUT", "FORWARD"} : EnsureJump(chain)
    \/ ListChains
    \/ \E chain \in to_delete : DeleteChain(chain)
    \/ \E tuple \in Instances : InstanceStarts(tuple)
    \/ \E i \in 1..MaxRunning : InstanceStops(i)

Spec == Init /\ [][Next]_vars

-----------------------------------------------------------------------------
(* ServiceGroup.update_rules on its own, over every policy document *)

InitCompile ==
    /\ table \in InitTables
    /\ running = <<>>
    /\ \E self \in Keys : conf \in [{self} -> PolicyDocs]
    /\ pc = "idle"
    /\ pending = EmptyDict
    /\ service_chains = EmptyDict
    /\ to_delete = {}
    /\ calls = <<>>
    /\ raised = ""
    /\ tableAtStart = table
    /\ stable = FALSE
    /\ result = NoResult

\* self.update_rules(): compile the rules, then ensure_chain
UpdateRulesAlone(self) ==
    /\ pc = "idle"
    /\ LET compiled == rules(self)
           call == Call("ensure_chain", chain_name(self), compiled.value)
       IN  /\ result' = compiled
           /\ \/ /\ compiled.raised # ""
                 /\ raised' = compiled.raised
                 /\ table' = update_rules(table, self, compiled)
                 /\ calls' = calls
              \/ /\ compiled.raised = ""
                 /\ calls' = Append(calls, call)
                 /\ \/ raised' = "IPTCError" /\ table' = table
                    \/ raised' = "" /\ table' = update_rules(table, self, compiled)
    /\ pc' = "updated"
    /\ UNCHANGED <<running, conf, pending, service_chains, to_delete,
                   tableAtStart, stable>>

NextCompile == \E self \in DOMAIN conf : UpdateRulesAlone(self)

SpecCompile == InitCompile /\ [][NextCompile]_vars

-----------------------------------------------------------------------------
(* garbage_collect_old_service_chains on its own, for any desired_chains *)

\* a host with three service chains, one of them dispatched to
ThreeChainTable ==
    (DISPATCH :> paasta_rules(chain_name(K1) :> {MAC1}))
        @@ (chain_name(K2) :> <<>>)
        @@ ManagedTable

\* the names desired_chains is drawn from
DesiredNames ==
    { chain_name(K1), chain_name(K2), STALE_CHAIN, "PAASTA.absent.0000000000",
      DISPATCH, "PAASTA-INTERNET", "INPUT" }

InitGC ==
    /\ table \in InitTables \cup {ThreeChainTable}
    /\ running = <<>>
    /\ conf \in [Keys -> {PolicyNoDeps("monitor")}]
    /\ pc = "gc"
    /\ pending = EmptyDict
    /\ \E desired \in SUBSET DesiredNames : service_chains = [c \in desired |-> {}]
    /\ to_delete = {}
    /\ calls = <<>>
    /\ raised = ""
    /\ tableAtStart = table
    /\ stable = FALSE
    /\ result = NoResult

\* garbage_collect_old_service_chains is called again
CollectAgain(desired) ==
    /\ pc \in {"done", "aborted"}
    /\ pc' = "gc"
    /\ service_chains' = [c \in desired |-> {}]
    /\ to_delete' = {}
    /\ calls' = <<>>
    /\ raised' = ""
    /\ tableAtStart' = table
    /\ UNCHANGED <<table, running, conf, pending, stable, result>>

NextGC ==
    \/ ListChains
    \/ \E chain \in to_delete : DeleteChain(chain)
    \/ \E desired \in SUBSET DesiredNames : CollectAgain(desired)

SpecGC == InitGC /\ [][NextGC]_vars

-----------------------------------------------------------------------------
(* general_update invoked by two callers at once, on the one table of the  *)
(* host.  Each caller has its own position and its own locals; the body of *)
(* general_update takes no lock.                                            *)

Callers == {1, 2}

ConcurrentPolicies ==
    { Policy("block", <<"internet">>, <<"svcB.main">>), Policy("allow", <<>>, <<>>) }

InitConcurrent ==
    /\ table \in {FreshTable, ManagedTable}
    /\ running \in Discoveries
    /\ conf \in [Keys -> ConcurrentPolicies]
    /\ pc = [c \in Callers |-> "idle"]
    /\ pending = [c \in Callers |-> EmptyDict]
    /\ service_chains = [c \in Callers |-> EmptyDict]
    /\ to_delete = [c \in Callers |-> {}]
    /\ calls = <<>>
    /\ raised = [c \in Callers |-> ""]
    /\ tableAtStart = table
    /\ stable = FALSE
    /\ result = NoResult

\* caller c moves on to position at
Goes(c, at) == pc' = [pc EXCEPT ![c] = at]

\* the exception exc leaves the general_update of caller c
AbortOf(c, exc) ==
    /\ Goes(c, "aborted")
    /\ raised' = [raised EXCEPT ![c] = exc]

\* general_update of caller c begins: ensure_internet_chain()
CallerEnsureInternetChain(c) ==
    /\ pc[c] = "idle"
    /\ \/ AbortOf(c, "IPTCError") /\ table' = table
       \/ /\ table' = ensure_chain(table, "PAASTA-INTERNET", internet_rules)
          /\ Goes(c, Continue("ensure_internet_chain"))
          /\ raised' = raised
    /\ UNCHANGED <<calls, running, conf, pending, service_chains, to_delete,
                   tableAtStart, stable, result>>

\* ensure_service_chains of caller c: active_service_groups(soa_dir)
CallerDiscover(c) ==
    /\ pc[c] = "discover"
    /\ \/ AbortOf(c, "DiscoveryError") /\ pending' = pending
       \/ /\ pending' = [pending EXCEPT ![c] = active_service_groups(running, SOA_DIR)]
          /\ Goes(c, IF DOMAIN pending'[c] = {} THEN Continue("ensure_service_chains")
                                                ELSE "services")
          /\ raised' = raised
    /\ UNCHANGED <<table, running, conf, service_chains, to_delete, calls,
                   tableAtStart, stable, result>>

\* ensure_service_chains of caller c: one iteration of the loop
CallerUpdateRules(c, self) ==
    /\ pc[c] = "services"
    /\ self \in DOMAIN pending[c]
    /\ LET compiled == rules(self)
       IN  \/ /\ compiled.raised # ""
              /\ AbortOf(c, compiled.raised)
              /\ table' = update_rules(table, self, compiled)
              /\ UNCHANGED <<pending, service_chains>>
           \/ /\ compiled.raised = ""
              /\ \/ AbortOf(c, "IPTCError") /\ UNCHANGED <<table, pending, service_chains>>
                 \/ /\ table' = update_rules(table, self, compiled)
                    /\ service_chains' =
                           [service_chains EXCEPT
                                ![c] = record_chain(service_chains[c], self, pending[c][self])]
                    /\ pending' =
                           [pending EXCEPT
                                ![c] = [k \in DOMAIN pending[c] \ {self} |-> pending[c][k]]]
                    /\ Goes(c, IF DOMAIN pending'[c] = {}
                               THEN Continue("ensure_service_chains")
                               ELSE "services")
                    /\ raised' = raised
    /\ UNCHANGED <<calls, running, conf, to_delete, tableAtStart, stable, result>>

\* ensure_dispatch_chains of caller c: ensure_chain('PAASTA', paasta_rules)
CallerEnsureDispatchChain(c) ==
    /\ pc[c] = "PAASTA"
    /\ \/ AbortOf(c, "IPTCError") /\ table' = table
       \/ /\ table' = ensure_chain(table, DISPATCH, paasta_rules(service_chains[c]))
          /\ Goes(c, "INPUT")
          /\ raised' = raised
    /\ UNCHANGED <<calls, running, conf, pending, service_chains, to_delete,
                   tableAtStart, stable, result>>

\* ensure_dispatch_chains of caller c: ensure_rule(chain, jump_to_paasta)
CallerEnsureJump(c, chain) ==
    /\ pc[c] = chain
    /\ \/ AbortOf(c, "IPTCError") /\ table' = table
       \/ /\ table' = ensure_rule(table, chain, jump_to_paasta)
          /\ Goes(c, AfterEntryChain(chain))
          /\ raised' = raised
    /\ UNCHANGED <<calls, running, conf, pending, service_chains, to_delete,
                   tableAtStart, stable, result>>

\* garbage_collect_old_service_chains of caller c: all_chains() and the difference
CallerListChains(c) ==
    /\ pc[c] = "gc"
    /\ \/ AbortOf(c, "IPTCError") /\ to_delete' = to_delete
       \/ /\ to_delete' = [to_delete EXCEPT ![c] = old_service_chains(table, service_chains[c])]
          /\ Goes(c, IF to_delete'[c] = {}
                     THEN Continue("garbage_collect_old_service_chains")
                     ELSE "delete")
          /\ raised' = raised
    /\ UNCHANGED <<calls, table, running, conf, pending, service_chains,
                   tableAtStart, stable, result>>

\* garbage_collect_old_service_chains of caller c: delete_chain(chain); the
\* other caller may have deleted the chain since it was listed
CallerDeleteChain(c, chain) ==
    /\ pc[c] = "delete"
    /\ chain \in to_delete[c]
    /\ \/ AbortOf(c, "IPTCError") /\ UNCHANGED <<table, to_delete>>
       \/ /\ chain \in DOMAIN table
          /\ ~Referenced(table, chain)
          /\ table' = delete_chain(table, chain)
          /\ to_delete' = [to_delete EXCEPT ![c] = @ \ {chain}]
          /\ Goes(c, IF to_delete'[c] = {}
                     THEN Continue("garbage_collect_old_service_chains")
                     ELSE "delete")
          /\ raised' = raised
    /\ UNCHANGED <<calls, running, conf, pending, service_chains,
                   tableAtStart, stable, result>>

\* an instance starts on the host, whatever the callers are doing
ConcurrentInstanceStarts(tuple) ==
    /\ Len(running) < MaxRunning
    /\ running' = Append(running, tuple)
    /\ UNCHANGED <<table, conf, pc, pending, service_chains, to_delete, calls,
                   raised, tableAtStart, stable, result>>

NextConcurrent ==
    \/ \E c \in Callers : CallerEnsureInternetChain(c)
    \/ \E c \in Callers : CallerDiscover(c)
    \/ \E c \in Callers, self \in Keys : CallerUpdateRules(c, self)
    \/ \E c \in Callers : CallerEnsureDispatchChain(c)
    \/ \E c \in Callers, chain \in {"INPUT", "FORWARD"} : CallerEnsureJump(c, chain)
    \/ \E c \in Callers : CallerListChains(c)
    \/ \E c \in Callers : \E chain \in to_delete[c] : CallerDeleteChain(c, chain)
    \/ \E tuple \in Instances : ConcurrentInstanceStarts(tuple)

SpecConcurrent == InitConcurrent /\ [][NextConcurrent]_vars

-----------------------------------------------------------------------------
(* ServiceGroup.chain_name on its own, over service groups of every shape *)

ChainNameServices ==
    {"", "svcA", "example_ha", "example_hap", "example_happy", "example_happyhour"}

ChainNameKeys ==
    { ServiceGroup(service, instance, framework, soa_dir) :
          service \in ChainNameServices, instance \in {"main", "canary"},
          framework \in {"marathon", "chronos"}, soa_dir \in {SOA_DIR, "/tmp/soa"} }
        \cup {K3, K4}

InitChainName ==
    /\ table = FreshTable
    /\ running = <<>>
    /\ conf = EmptyDict
    /\ pc = "idle"
    /\ pending = EmptyDict
    /\ service_chains = EmptyDict
    /\ to_delete = {}
    /\ calls = <<>>
    /\ raised = ""
    /\ tableAtStart = table
    /\ stable = FALSE
    /\ result = NoResult

\* self.chain_name is read once more, for any service group
ReadChainName(self) ==
    /\ Len(calls) < MaxEvaluations
    /\ result' = chain_name_asserted(self)
    /\ calls' = Append(calls, [self |-> self, result |-> result'])
    /\ UNCHANGED <<table, running, conf, pc, pending, service_chains, to_delete,
                   raised, tableAtStart, stable>>

NextChainName == \E self \in ChainNameKeys : ReadChainName(self)

SpecChainName == InitChainName /\ [][NextChainName]_vars

-----------------------------------------------------------------------------
(* Claims *)

\* the service group of a standalone update_rules call
Updated == CHOOSE self \in DOMAIN conf : TRUE

DeclaredWellKnown == GetOrEmpty(conf[Updated].dependencies, "well-known")
DeclaredSmartstack == GetOrEmpty(conf[Updated].dependencies, "smartstack")

\* the proxy ports of the configuration store, as iptables prints them
ExpectedDport(namespace) ==
    CASE namespace = "svcB.main" -> "8888"
      [] namespace = "svcB.canary" -> "20719"
      [] OTHER -> "?"

\* the rule list has the shape default, well-known..., smartstack...
RulesInDeclaredOrder(rs) ==
    /\ Len(rs) = 1 + Len(DeclaredWellKnown) + Len(DeclaredSmartstack)
    /\ rs[1].protocol = "ip" /\ rs[1].src = ANY /\ rs[1].dst = ANY
    /\ rs[1].matches = <<>>
    /\ rs[1].target \in {"REJECT", "LOG"}
    /\ \A i \in DOMAIN DeclaredWellKnown :
          /\ rs[1 + i].protocol = "ip"
          /\ rs[1 + i].target = "PAASTA-INTERNET"
          /\ rs[1 + i].matches = <<>>
    /\ \A j \in DOMAIN DeclaredSmartstack :
          LET r == rs[1 + Len(DeclaredWellKnown) + j]
          IN  /\ r.protocol = "tcp"
              /\ r.target = "ACCEPT"
              /\ r.dst = "169.254.255.254/255.255.255.255"
              /\ r.matches =
                    << <<"tcp", << <<"dport", ExpectedDport(DeclaredSmartstack[j])>> >> >> >>

\* C1 as stated: for every policy document ServiceGroup.rules returns
\* 1 + |well-known| + |smartstack| rules: the default rule, then the well-known
\* rules in declared order, then the smartstack rules in declared order.
C1_EveryPolicyCompiles ==
    pc = "updated" => result.raised = "" /\ RulesInDeclaredOrder(result.value)

\* C1 amended: whenever ServiceGroup.rules returns (the policy document
\* compiles without an error), it returns 1 + |well-known| + |smartstack|
\* rules: the default rule, then one jump per well-known dependency in
\* declared order, then one tcp ACCEPT per smartstack namespace in declared
\* order with dport equal to the port of that namespace.
C1_RulesOrder ==
    (pc = "updated" /\ result.raised = "") => RulesInDeclaredOrder(result.value)

\* a policy with a well-known dependency and two different namespaces compiled
C1_Witness ==
    /\ pc = "updated"
    /\ result.raised = ""
    /\ Len(DeclaredWellKnown) >= 1
    /\ DeclaredSmartstack = <<"svcB.canary", "svcB.main">>
    /\ Len(result.value) = 4

\* the chains the delete_chain calls of the current pass named
Deleted == { calls[i].chain : i \in { j \in DOMAIN calls : calls[j].op = "delete_chain" } }

IsServiceChainName(c) == Len(c) >= 7 /\ SubSeq(c, 1, 7) = "PAASTA."

\* the chains present when collection began that are service chains and not desired
Stale == { c \in DOMAIN tableAtStart :
              IsServiceChainName(c) /\ c \notin DOMAIN service_chains }

\* no step removes a chain whose name does not start with 'PAASTA.'
KeepsForeignChains ==
    \A c \in DOMAIN table : ~IsServiceChainName(c) => c \in DOMAIN table'

\* C2: garbage_collect_old_service_chains calls delete_chain only on chains
\* that were present, start with 'PAASTA.' and are not desired, and on all of
\* them once it returns; no chain without the prefix is ever removed,
\* whatever desired_chains holds, over any sequence of collections.
C2_GarbageCollection ==
    /\ [](Deleted \subseteq Stale)
    /\ [](pc = "done" => Deleted = Stale /\ DOMAIN table = DOMAIN tableAtStart \ Stale)
    /\ [][KeepsForeignChains]_vars

\* a collection that deleted one service chain, kept another that is desired,
\* and left the undesired dispatch and internet chains in place
C2_Witness ==
    /\ pc = "done"
    /\ Deleted = {STALE_CHAIN}
    /\ {chain_name(K1), chain_name(K2)} \subseteq DOMAIN table
    /\ {chain_name(K1), chain_name(K2)} \subseteq DOMAIN service_chains
    /\ {DISPATCH, "PAASTA-INTERNET"} \subseteq DOMAIN table \ DOMAIN service_chains

\* the service groups discovery reports as running
RunningKeys == { ServiceGroup(t[1], t[2], t[3], SOA_DIR) : t \in Range(running) }

\* the chain names of the service groups, as computed by the program itself
ExpectedChainName(k) ==
    CASE k.service = "svcA" -> "PAASTA.svcA.2dadc84a34"
      [] k.service = "example_happyhour" -> "PAASTA.example_ha.12aea0781a"

ConfigErrors == {"AssertionError", "KeyError", "ValueError"}

\* C3: if compiling the policy of one service group raises a configuration
\* error during a pass, every other running service group is still
\* reconciled in that pass: its chain holds exactly its compiled rules.
C3_FaultIsolation ==
    (pc = "aborted" /\ raised \in ConfigErrors) =>
        \A k \in RunningKeys :
            rules(k).raised = "" =>
                /\ ExpectedChainName(k) \in DOMAIN table
                /\ table[ExpectedChainName(k)] = rules(k).value

\* C4: when the compilation of a service group's rules fails (posture,
\* well-known resource, namespace or port, at any position), update_rules
\* makes no ensure_chain call and the table, the group's chain included, is
\* exactly as it was before.
C4_FailedCompileLeavesChain ==
    (pc = "updated" /\ result.raised # "") =>
        /\ result.raised \in ConfigErrors
        /\ calls = <<>>
        /\ table = tableAtStart

\* the second namespace fails after three rules were compiled, and the
\* group already has a chain
C4_Witness ==
    /\ pc = "updated"
    /\ result.raised = "KeyError"
    /\ conf[Updated].outbound_firewall = "block"
    /\ DeclaredWellKnown = <<"internet">>
    /\ DeclaredSmartstack = <<"svcB.main", "svcB.noport">>
    /\ chain_name(Updated) \in DOMAIN table
    /\ table[chain_name(Updated)] # <<>>

\* the collaborator call that failed was made before garbage collection
FailedBeforeCollection ==
    \/ raised = "DiscoveryError"
    \/ /\ raised = "IPTCError"
       /\ calls[Len(calls)].op \in {"ensure_chain", "ensure_rule"}

\* C5: if discovery, an ensure_chain or an ensure_rule call fails, the pass
\* aborts without any delete_chain call, and every chain that existed before
\* the pass still exists.
C5_FailedPassDeletesNothing ==
    (pc = "aborted" /\ FailedBeforeCollection) =>
        /\ Deleted = {}
        /\ DOMAIN tableAtStart \subseteq DOMAIN table

\* ensure_rule on FORWARD failed while a chain of a service that is gone was
\* waiting to be collected
C5_Witness ==
    /\ pc = "aborted"
    /\ raised = "IPTCError"
    /\ calls[Len(calls)].op = "ensure_rule"
    /\ calls[Len(calls)].chain = "FORWARD"
    /\ STALE_CHAIN \in DOMAIN table
    /\ STALE_CHAIN \notin DOMAIN service_chains

\* C6: a pass that runs right after a completed pass, with discovery and
\* configuration unchanged, never changes the table: every ensure_chain call
\* installs the rules the chain already holds, and nothing is deleted.
C6_Idempotent ==
    stable =>
        /\ table = tableAtStart
        /\ Deleted = {}
        /\ \A i \in DOMAIN calls :
              calls[i].op = "ensure_chain" =>
                  /\ calls[i].chain \in DOMAIN tableAtStart
                  /\ calls[i].rules = tableAtStart[calls[i].chain]

\* a repeated pass over two running service groups has completed
C6_Witness ==
    /\ stable
    /\ pc = "done"
    /\ Cardinality(DOMAIN service_chains) = 2
    /\ Cardinality(table[DISPATCH]) = 2
    /\ Len(calls) >= 7

\* the MAC addresses of the model in upper case
ExpectedUpperMac(mac) ==
    CASE mac = "02:42:a9:fe:00:0a" -> "02:42:A9:FE:00:0A"
      [] mac = "02:42:A9:FE:00:0A" -> "02:42:A9:FE:00:0A"
      [] mac = "02:42:a9:fe:00:0b" -> "02:42:A9:FE:00:0B"

ExpectedDispatchRules ==
    { [protocol |-> "ip", src |-> "0.0.0.0/0.0.0.0", dst |-> "0.0.0.0/0.0.0.0",
       target |-> c,
       matches |-> << <<"mac", << <<"mac_source", ExpectedUpperMac(m)>> >> >> >>] :
        <<c, m>> \in { <<c1, m1>> \in (DOMAIN service_chains) \X {MAC1, MAC1U, MAC2} :
                          m1 \in service_chains[c1] } }

\* the ensure_chain call of ensure_dispatch_chains has succeeded in this pass
DispatchInstalled == pc \in {"INPUT", "FORWARD", "gc", "delete", "done"}

\* C7: the dispatch chain holds exactly one rule per (chain, upper-case MAC)
\* pair of the chain map, matching that source MAC and jumping to that chain.
C7_DispatchRules ==
    /\ \A i \in DOMAIN calls :
          (calls[i].op = "ensure_chain" /\ calls[i].chain = "PAASTA") =>
              calls[i].rules = ExpectedDispatchRules
    /\ DispatchInstalled =>
          /\ table[DISPATCH] = ExpectedDispatchRules
          /\ Cardinality(table[DISPATCH]) =
                Cardinality({ <<c, ExpectedUpperMac(m)>> :
                    <<c, m>> \in { <<c1, m1>> \in (DOMAIN service_chains) \X {MAC1, MAC1U, MAC2} :
                                      m1 \in service_chains[c1] } })

\* one chain with two MAC addresses that differ only in case
C7_Witness ==
    /\ DispatchInstalled
    /\ DOMAIN service_chains = {ExpectedChainName(K1)}
    /\ service_chains[ExpectedChainName(K1)] = {MAC1, MAC1U}
    /\ Cardinality(table[DISPATCH]) = 1

JumpRule ==
    [protocol |-> "ip", src |-> "0.0.0.0/0.0.0.0", dst |-> "0.0.0.0/0.0.0.0",
     target |-> "PAASTA", matches |-> <<>>]

IsJump(r) == r = JumpRule
IsOther(r) == r # JumpRule

\* C8: once ensure_dispatch_chains has returned, INPUT and FORWARD each hold
\* exactly one jump to 'PAASTA', and their other rules are as before the pass,
\* in every pass.
C8_EntryChains ==
    pc \in {"gc", "delete", "done"} =>
        \A c \in {"INPUT", "FORWARD"} :
            /\ Len(SelectSeq(table[c], IsJump)) = 1
            /\ SelectSeq(table[c], IsOther) = SelectSeq(tableAtStart[c], IsOther)

\* the jump was added to FORWARD and deduplicated in INPUT
C8_Witness ==
    /\ pc = "delete"
    /\ Len(SelectSeq(tableAtStart["INPUT"], IsJump)) = 2
    /\ Len(SelectSeq(tableAtStart["FORWARD"], IsJump)) = 0
    /\ tableAtStart["FORWARD"] # <<>>

\* the place of a table-control call in the order of general_update
Rank(call) ==
    CASE call.op = "ensure_chain" /\ call.chain = "PAASTA-INTERNET" -> 1
      [] call.op = "ensure_chain" /\ IsServiceChainName(call.chain) -> 2
      [] call.op = "ensure_chain" /\ call.chain = "PAASTA" -> 3
      [] call.op = "ensure_rule" /\ call.chain = "INPUT" -> 4
      [] call.op = "ensure_rule" /\ call.chain = "FORWARD" -> 5
      [] call.op = "all_chains" -> 6
      [] call.op = "delete_chain" -> 7
      [] OTHER -> 0

Ranks == { Rank(calls[i]) : i \in DOMAIN calls }

\* the service chains ensured by the current pass
Ensured == { calls[i].chain : i \in { j \in DOMAIN calls : Rank(calls[j]) = 2 } }

\* C9: in one pass the internet chain is ensured first, then the service
\* chains, then the dispatch chain, then the jumps in INPUT and FORWARD, and
\* only then chains are listed and deleted; what garbage collection spares is
\* exactly the set of chains the same pass ensured.
C9_PassOrder ==
    /\ \A i \in DOMAIN calls : Rank(calls[i]) # 0
    /\ \A i, j \in DOMAIN calls : i < j => Rank(calls[i]) <= Rank(calls[j])
    /\ \A i, j \in DOMAIN calls :
          (i < j /\ Rank(calls[i]) = Rank(calls[j])) => Rank(calls[i]) \in {2, 7}
    /\ calls # <<>> => Rank(calls[1]) = 1
    /\ \A r \in Ranks : \A q \in {1, 3, 4, 5, 6} : q < r => q \in Ranks
    /\ 3 \in Ranks => Ensured = DOMAIN service_chains
    /\ 6 \in Ranks =>
          /\ Deleted \cap Ensured = {}
          /\ Ensured \subseteq DOMAIN table
    /\ pc = "done" =>
          { c \in DOMAIN table : IsServiceChainName(c) } = Ensured

\* a completed pass that ensured two service chains and deleted a third
C9_Witness ==
    /\ pc = "done"
    /\ Cardinality(Ensured) = 2
    /\ Deleted = {STALE_CHAIN}
    /\ Len(calls) = 8

\* the rules the two valid policy documents of the model compile to
ExpectedRules(doc) ==
    CASE doc.outbound_firewall = "block" ->
            << [protocol |-> "ip", src |-> "0.0.0.0/0.0.0.0", dst |-> "0.0.0.0/0.0.0.0",
                target |-> "REJECT", matches |-> <<>>],
               [protocol |-> "ip", src |-> "0.0.0.0/0.0.0.0", dst |-> "0.0.0.0/0.0.0.0",
                target |-> "PAASTA-INTERNET", matches |-> <<>>],
               [protocol |-> "tcp", src |-> "0.0.0.0/0.0.0.0",
                dst |-> "169.254.255.254/255.255.255.255", target |-> "ACCEPT",
                matches |-> << <<"tcp", << <<"dport", "8888">> >> >> >>] >>
      [] doc.outbound_firewall = "monitor" ->
            << [protocol |-> "ip", src |-> "0.0.0.0/0.0.0.0", dst |-> "0.0.0.0/0.0.0.0",
                target |-> "LOG", matches |-> <<>>] >>

\* C10: when a pass completes without error, the chains named 'PAASTA.*' are
\* exactly the chains of the running service groups, and each holds exactly
\* the rules compiled from the current policy of its group.
C10_TableMatchesPolicy ==
    pc = "done" =>
        /\ { c \in DOMAIN table : IsServiceChainName(c) }
              = { ExpectedChainName(k) : k \in RunningKeys }
        /\ \A k \in RunningKeys :
              table[ExpectedChainName(k)] = ExpectedRules(conf[k])

\* a pass that replaced the outdated chain of K1, created the chain of K2
\* and removed the chain of a service that is gone
C10_Witness ==
    /\ pc = "done"
    /\ RunningKeys = {K1, K2}
    /\ conf[K1].outbound_firewall = "block"
    /\ conf[K2].outbound_firewall = "monitor"
    /\ STALE_CHAIN \in DOMAIN tableAtStart
    /\ ExpectedChainName(K2) \notin DOMAIN tableAtStart
    /\ tableAtStart[ExpectedChainName(K1)] # table[ExpectedChainName(K1)]

\* C11: a delete_chain call that fails during garbage collection does not
\* abort the pass: the pass still completes, and every stale chain has had
\* its delete_chain call.
C11_DeleteFailureNonFatal ==
    (pc \in {"done", "aborted"} /\ Deleted # {}) =>
        /\ pc = "done"
        /\ Deleted = Stale

\* the default rule of a posture: match-all, with the given target
MatchAll(target) ==
    [protocol |-> "ip", src |-> "0.0.0.0/0.0.0.0", dst |-> "0.0.0.0/0.0.0.0",
     target |-> target, matches |-> <<>>]

\* the compiled rules start with the one default rule of this target
OneDefaultRule(rs, target) ==
    /\ rs[1] = MatchAll(target)
    /\ \A i \in 2..Len(rs) : rs[i].target \notin {"REJECT", "LOG"}

\* C12: posture 'block' gives exactly one match-all REJECT rule, 'monitor'
\* exactly one match-all LOG rule, and any other posture (a missing one
\* included) raises instead of producing a rule or a default.
C12_DefaultRuleByPosture ==
    pc = "updated" =>
        LET posture == conf[Updated].outbound_firewall
        IN  /\ posture = "block" =>
                  /\ result.raised # "AssertionError"
                  /\ result.raised = "" => OneDefaultRule(result.value, "REJECT")
            /\ posture = "monitor" =>
                  /\ result.raised # "AssertionError"
                  /\ result.raised = "" => OneDefaultRule(result.value, "LOG")
            /\ posture \notin {"block", "monitor"} =>
                  /\ result.raised = "AssertionError"
                  /\ result.value = <<>>
                  /\ calls = <<>>
                  /\ table = tableAtStart

\* a document without a posture, whose dependencies are all valid, was refused
C12_Witness ==
    /\ pc = "updated"
    /\ conf[Updated].outbound_firewall = "None"
    /\ DeclaredWellKnown = <<"internet">>
    /\ DeclaredSmartstack = <<"svcB.main">>
    /\ result.raised = "AssertionError"

\* C13: a declared well-known resource other than 'internet' makes the
\* compilation of the service group fail; the resource is never skipped, no
\* rule list is returned and nothing is installed.
C13_UnknownWellKnownFails ==
    (pc = "updated" /\ \E i \in DOMAIN DeclaredWellKnown : DeclaredWellKnown[i] # "internet") =>
        /\ result.raised # ""
        /\ conf[Updated].outbound_firewall \in {"block", "monitor"} => result.raised = "KeyError"
        /\ result.value = <<>>
        /\ calls = <<>>
        /\ table = tableAtStart

\* a document that declares 'internet' and then an unknown resource, and is
\* valid otherwise, was refused
C13_Witness ==
    /\ pc = "updated"
    /\ conf[Updated].outbound_firewall = "block"
    /\ DeclaredWellKnown = <<"internet", "datacenter">>
    /\ DeclaredSmartstack = <<"svcB.main">>
    /\ result.raised = "KeyError"

\* the pass of caller c has made its first call on the table and is not over
Mutating(c) == pc[c] \notin {"idle", "done", "aborted"}

\* C14: passes are serialized: of two concurrent callers of general_update,
\* one does not start mutating the table while the other is still mutating
\* it, so their table operations never interleave.
C14_PassesSerialized == ~(Mutating(1) /\ Mutating(2))

\* C15: chain_name is a total deterministic function of the key: reading it
\* never fails the length assertion, the name is 'PAASTA.', the first ten
\* characters of the service, '.', and ten more characters, at most 28 in
\* all, and two reads for one key give one name.
C15_ChainNameTotal ==
    \A i \in DOMAIN calls :
        LET self == calls[i].self
            name == calls[i].result.value
            kept == Min(10, Len(self.service))
        IN  /\ calls[i].result.raised = ""
            /\ Len(name) = 7 + kept + 11
            /\ Len(name) <= 28
            /\ SubSeq(name, 1, 7 + kept + 1) = ("PAASTA." \o Take(self.service, 10)) \o "."
            /\ \A j \in DOMAIN calls : calls[j].self = self => calls[j].result = calls[i].result

\* the name of a service group with a 17-character service was read twice
\* and is 28 characters long
C15_Witness ==
    /\ Len(calls) = 2
    /\ calls[1].self = calls[2].self
    /\ Len(calls[1].self.service) = 17
    /\ Len(calls[2].result.value) = 28

\* C16: two distinct keys whose service names agree on their first ten
\* characters have distinct chain names.
C16_DistinctNames ==
    \A i, j \in DOMAIN calls :
        ( /\ calls[i].self # calls[j].self
          /\ Take(calls[i].self.service, 10) = Take(calls[j].self.service, 10) )
            => calls[i].result.value # calls[j].result.value

\* ensure_service_chains has returned in the current pass
ServiceChainsReturned == pc \in {"PAASTA", "INPUT", "FORWARD", "gc", "delete", "done"}

\* the MAC addresses discovery reported for service group k
MacsOf(k) ==
    { running[i][4] : i \in { j \in DOMAIN running :
          ServiceGroup(running[j][1], running[j][2], running[j][3], SOA_DIR) = k } }

\* C17: whatever sequence of tuples discovery reports, the Service Reconciler
\* calls ensure_chain once per distinct key and returns a map with one entry
\* per distinct key, holding exactly the MAC addresses of the tuples with
\* that key; duplicates and the order of the tuples make no difference.
C17_OneChainPerKey ==
    ServiceChainsReturned =>
        /\ DOMAIN service_chains = { ExpectedChainName(k) : k \in RunningKeys }
        /\ Cardinality(DOMAIN service_chains) = Cardinality(RunningKeys)
        /\ \A k \in RunningKeys : service_chains[ExpectedChainName(k)] = MacsOf(k)
        /\ \A k \in RunningKeys :
              Cardinality({ i \in DOMAIN calls : /\ calls[i].op = "ensure_chain"
                                                 /\ calls[i].chain = ExpectedChainName(k) }) = 1
        /\ Ensured = { ExpectedChainName(k) : k \in RunningKeys }

\* discovery reported one service group twice, with two MAC addresses, and
\* its one chain was ensured once
C17_Witness ==
    /\ pc = "done"
    /\ Len(running) = 2
    /\ Cardinality(RunningKeys) = 1
    /\ running[1][4] # running[2][4]
    /\ Cardinality(DOMAIN service_chains) = 1
    /\ \A n \in DOMAIN service_chains : Cardinality(service_chains[n]) = 2

\* C18: after a pass that completes without error, every rule of the
\* dispatch chain targets a service chain that exists in the table, one of
\* those the pass ensured.
C18_DispatchTargetsExist ==
    pc = "done" =>
        \A r \in table[DISPATCH] :
            /\ r.target \in DOMAIN table
            /\ IsServiceChainName(r.target)
            /\ r.target \in Ensured

\* a pass completed that dispatches to two chains and removed a stale one
C18_Witness ==
    /\ pc = "done"
    /\ { r.target : r \in table[DISPATCH] } = { ExpectedChainName(K1), ExpectedChainName(K2) }
    /\ STALE_CHAIN \in DOMAIN tableAtStart
    /\ STALE_CHAIN \notin DOMAIN table

\* C19: whenever delete_chain(c) is about to be called by garbage collection,
\* the dispatch chain holds no rule that targets c.
C19_NotDispatchedWhenDeleted ==
    pc = "delete" =>
        /\ DISPATCH \in DOMAIN table
        /\ \A c \in to_delete : \A r \in table[DISPATCH] : r.target # c

\* the chain the dispatch chain pointed to before the pass is up for deletion,
\* and the dispatch chain now points elsewhere
C19_Witness ==
    /\ pc = "delete"
    /\ STALE_CHAIN \in to_delete
    /\ DISPATCH \in DOMAIN tableAtStart
    /\ \E r \in tableAtStart[DISPATCH] : r.target = STALE_CHAIN
    /\ table[DISPATCH] # {}

\* how many rules of chain c are the jump to the dispatch chain
Jumps(c) == Cardinality({ i \in DOMAIN table[c] : table[c][i] = JumpRule })

\* C20: when discovery reports no running instance, the pass replaces the
\* dispatch chain with the empty rule set, puts every 'PAASTA.' chain up for
\* deletion, and once it has completed no 'PAASTA.' chain is left, while
\* 'PAASTA-INTERNET' and the jumps of INPUT and FORWARD are in place.
C20_NothingRunning ==
    running = <<>> =>
        /\ DispatchInstalled => table[DISPATCH] = {}
        /\ pc = "delete" => to_delete = { c \in DOMAIN table : IsServiceChainName(c) }
        /\ pc = "done" =>
              /\ \A c \in DOMAIN table : ~IsServiceChainName(c)
              /\ table["PAASTA-INTERNET"] = internet_rules
              /\ Jumps("INPUT") = 1
              /\ Jumps("FORWARD") = 1

\* a host that had two service chains and a non-empty dispatch chain has
\* been cleaned by a pass that found nothing running
C20_Witness ==
    /\ pc = "done"
    /\ running = <<>>
    /\ tableAtStart = ManagedTable
    /\ table[DISPATCH] = {}
    /\ STALE_CHAIN \notin DOMAIN table
    /\ ExpectedChainName(K1) \notin DOMAIN table

====
